---- MODULE Spec2Model ----
(***************************************************************************)
(* Force matching engine (CGForceMatching, csg_fmatch): channel            *)
(* registration, per-frame assembly of the design matrix and RHS, block    *)
(* solve in both least-squares modes, block statistics and the final       *)
(* output.                                                                 *)
(*                                                                         *)
(* Numbers are exact integers.  Coordinates of a channel are measured in   *)
(* the unit step/(res_output_coeff*(n+1)), so that grid points and output  *)
(* coordinates are integers; spline basis weights and spline values are    *)
(* carried multiplied by 6*step (see BasisWeights).                        *)
(*                                                                         *)
(* Further sections model the multistate iie potential update script,      *)
(* ERDiabatizationFrame::ParseOptions, PolarSeg and InteractionTensor,     *)
(* each with a specification of its own.                                   *)
(***************************************************************************)
EXTENDS Integers, Sequences, FiniteSets, Bags, TLC

(* ---------------------------------------------------------------- bounds *)
NBeads == 2        \* beads of the topology
MaxFrames == 4     \* EvalConfiguration calls of one run
MaxN == 2          \* spline intervals n of a channel range over 1..MaxN
MaxChannels == 2   \* channels of each kind in a registration

(* ------------------------------------------------ vectors and matrices *)
\* ub::vector<double>: a function on 0..size-1
ZeroVec(sz) == [i \in 0..(sz - 1) |-> 0]

RECURSIVE DotVV(_, _, _)
\* the first k terms of the inner product of v and w
DotVV(v, w, k) == IF k <= 0 THEN 0 ELSE v[k - 1] * w[k - 1] + DotVV(v, w, k - 1)

VSize(v) == Cardinality(DOMAIN v)

\* ub::matrix<double>: its two sizes and its entries, row-major
\* a function value, its entries evaluated once
Stored(f) == IF f = <<>> THEN <<>> ELSE f

MakeMatrix(r, c, entries) == [size1 |-> r, size2 |-> c, data |-> Stored(entries)]

\* the places of the entries of an r x c matrix; place p is entry
\* (p \div c, p % c)
Places(r, c) == 0..(r * c - 1)

ZeroMatrix(r, c) == MakeMatrix(r, c, [p \in Places(r, c) |-> 0])

\* entry (i, j), stored row by row
At(M, i, j) == M.data[i * M.size2 + j]

\* Matrix.clear(): every entry zero, sizes kept
Clear(M) == ZeroMatrix(M.size1, M.size2)

\* trans(M)
Trans(M) ==
    MakeMatrix(M.size2, M.size1,
               [p \in Places(M.size2, M.size1) |-> At(M, p % M.size1, p \div M.size1)])

RECURSIVE SumTo(_, _)
\* f[0] + ... + f[k-1]
SumTo(k, f) == IF k <= 0 THEN 0 ELSE f[k - 1] + SumTo(k - 1, f)

RECURSIVE Dot(_, _, _, _, _)
\* the first k terms of row i of P times column j of Q
Dot(P, Q, i, j, k) ==
    IF k <= 0 THEN 0 ELSE At(P, i, k - 1) * At(Q, k - 1, j) + Dot(P, Q, i, j, k - 1)

\* prec_prod(P, Q)
Prod(P, Q) ==
    [size1 |-> P.size1, size2 |-> Q.size2,
     data |-> [p \in 0..(P.size1 * Q.size2 - 1) |->
                  Dot(P, Q, p \div Q.size2, p % Q.size2, P.size2)]]

RECURSIVE DotVec(_, _, _, _)
DotVec(M, v, i, k) ==
    IF k <= 0 THEN 0 ELSE At(M, i, k - 1) * v[k - 1] + DotVec(M, v, i, k - 1)

\* prec_prod(M, v)
ProdVec(M, v) == Stored([i \in 0..(M.size1 - 1) |-> DotVec(M, v, i, M.size2)])

Identity(c) ==
    MakeMatrix(c, c, [p \in Places(c, c) |-> IF p \div c = p % c THEN 1 ELSE 0])

(* ------------------------------------------------------ CubicSpline *)
\* options of one channel: n intervals, res output points per grid point
ChannelOptions(nm, gmin, n, res) ==
    [name |-> nm, min |-> gmin, max |-> gmin + n * res * (n + 1), step |-> res * (n + 1),
     res_output_coeff |-> res]

\* CubicSpline::GenerateGrid: the number of grid points
GenerateGrid(gmin, gmax, gstep) == (gmax - gmin) \div gstep + 1

\* CubicSpline::getGridPoint
getGridPoint(Spline, j) == Spline.min + j * Spline.step

(* ------------------------------------------------------ SplineInfo *)
\* the columns a channel with n intervals takes
ColsOf_odd(n) == 2 * n + 1

ColsOf(n) == 2 * (n + 1)

\* the continuity rows a channel with n intervals takes
RowsOf(n) == n + 1

SplineInfo(index, bonded_, matr_pos_, opts) ==
    LET n == GenerateGrid(opts.min, opts.max, opts.step) - 1
        Spline == [min |-> opts.min, step |-> opts.step, size |-> n + 1,
                   f |-> ZeroVec(2 * (n + 1))]
        res == opts.res_output_coeff
    IN  [splineIndex |-> index,
         splineName |-> opts.name,
         bonded |-> bonded_,
         n |-> n,
         matr_pos |-> matr_pos_,
         res_output_coeff |-> res,
         Spline |-> Spline,
         result |-> ZeroVec(res * (n + 1)),
         error |-> ZeroVec(res * (n + 1)),
         resSum |-> ZeroVec(res * (n + 1)),
         resSum2 |-> ZeroVec(res * (n + 1)),
         \* resized, not cleared; written by every solve before it is read
         block_res |-> ZeroVec(2 * (n + 1)),
         del_x_out |-> (getGridPoint(Spline, n) - getGridPoint(Spline, 0))
                          \div (res * (n + 1))]

\* CubicSpline::AddBCToFitMatrix: the n+1 continuity rows of one spline, set
\* at rows offset1.. and columns offset2..; row r constrains the second
\* derivative coefficient of grid point r (natural boundary rows at r = 0
\* and r = n)
AddBCToFitMatrix(Spline, M, offset1, offset2) ==
    MakeMatrix(M.size1, M.size2,
               [p \in Places(M.size1, M.size2) |->
                   LET i == p \div M.size2
                       j == p % M.size2
                   IN  IF /\ i - offset1 \in 0..(Spline.size - 1)
                          /\ j = offset2 + Spline.size + (i - offset1)
                       THEN 1
                       ELSE At(M, i, j)])

\* CubicSpline::getInterval, for a coordinate inside the grid
getInterval(Spline, r) == (r - Spline.min) \div Spline.step

\* the four cubic-spline basis weights A, B, C, D at coordinate r, each
\* multiplied by 6*step: with h = step and d = r - grid(interval),
\*   A = (h-d)/h, B = d/h, C = (A^3-A)h^2/6, D = (B^3-B)h^2/6
BasisWeights(Spline, r) ==
    LET h == Spline.step
        d == r - getGridPoint(Spline, getInterval(Spline, r))
    IN  <<6 * (h - d), 6 * d,
          (h - d) * (h - d) * (h - d) - (h - d) * h * h,
          d * d * d - d * h * h>>

\* CubicSpline::AddToFitMatrix: adds the basis weights at coordinate x, times
\* scale, into row offset1 at the columns of the interval's two grid points
AddToFitMatrix(Spline, M, x, offset1, offset2, scale) ==
    LET spi == getInterval(Spline, x)
        w == BasisWeights(Spline, x)
        p == offset1 * M.size2 + offset2 + spi
    IN  [M EXCEPT !.data = [@ EXCEPT ![p] = @ + w[1] * scale,
                                     ![p + 1] = @ + w[2] * scale,
                                     ![p + Spline.size] = @ + w[3] * scale,
                                     ![p + Spline.size + 1] = @ + w[4] * scale]]

\* CubicSpline::setSplineData
setSplineData(Spline, data) == [Spline EXCEPT !.f = data]

\* CubicSpline::Calculate at coordinate r inside the grid, times 6*step
Calculate(Spline, r) ==
    LET i == getInterval(Spline, r)
        w == BasisWeights(Spline, r)
    IN  w[1] * Spline.f[i] + w[2] * Spline.f[i + 1]
          + w[3] * Spline.f[i + Spline.size] + w[4] * Spline.f[i + Spline.size + 1]

(* ------------------------------------------------------------ state *)
VARIABLES
    pc,             \* "constructed", "running" (BeginCG done), "done" (EndCG done)
    _options,       \* cg.fmatch.frames_per_block, cg.fmatch.constrainedLS
    _bonded,        \* options of the bonded channels, in order
    _nonbonded,     \* options of the non-bonded channels, in order
    Splines,        \* SplineContainer
    BlockNum, line_cntr, col_cntr, N_frames, ConstrLeastSQ, N, L, LeastSQOffset,
    _A, _b, _x, B_constr,
    frames,         \* EvalConfiguration calls so far
    solves,         \* FmatchAccumulateData runs so far
    conf,           \* the configuration handed to the last EvalConfiguration
    calls,          \* the AddToFitMatrix calls of the last EvalConfiguration
    errors,         \* "ERROR: No forces in configuration!" lines printed
    Bseen,          \* contents of B_constr as built by BeginCG and as read by a solve
    Xseen,          \* the solution vectors the solves have returned
    Xbag,           \* the same, each with the number of solves that returned it
    out,            \* the files written by EndCG
    writable,       \* whether the output files of the run can be opened
    asserts,        \* assertions on the matrix dimensions evaluated so far
    lsq,            \* _A and _b as the solve of the last frame received them
    iie,            \* a run of the multistate iie potential update script
    erd,            \* an ERDiabatizationFrame and the outcome of its ParseOptions
    polar,          \* the PolarSeg objects
    tensor          \* an InteractionTensor

\* the members of CGForceMatching, and the other programs
fmatch == <<pc, _options, _bonded, _nonbonded, Splines, BlockNum, line_cntr,
            col_cntr, N_frames, ConstrLeastSQ, N, L, LeastSQOffset, _A, _b, _x,
            B_constr, frames, solves, conf, calls, errors, Bseen, Xseen, Xbag,
            out, writable, asserts, lsq>>

vars == <<fmatch, iie, erd, polar, tensor>>

\* a program that is not part of the run
NotRun == [pc |-> "none"]

\* values an uninitialised double can hold: resize(.., false) keeps no
\* content and sets none
UninitVals == {0, 5}

Beads == 0..(NBeads - 1)

\* before the first frame
NoConf == [bonds |-> <<>>, pairs |-> <<>>, HasF |-> FALSE,
           F |-> [i \in Beads |-> <<0, 0, 0>>]]

(* ---------------------------------------------------------- BeginCG *)
\* the offset handed to the SplineInfo constructor
RegMatrPos_line(st) == st.line_cntr

RegMatrPos(st) == st.col_cntr

RECURSIVE Register(_, _, _)
\* one of the two registration loops of BeginCG
Register(list, bonded_, st) ==
    IF list = <<>> THEN st
    ELSE LET i == SplineInfo(Len(st.Splines), bonded_, RegMatrPos(st), Head(list))
         IN  Register(Tail(list), bonded_,
                      [Splines |-> Append(st.Splines, i),
                       line_cntr |-> st.line_cntr + RowsOf(i.n),
                       col_cntr |-> st.col_cntr + ColsOf(i.n)])

RECURSIVE AssignLoop_oddCols(_, _, _, _)
\* the loop of FmatchAssignSmoothCondsToMatrix with its running offsets
AssignLoop_oddCols(M, sps, line_tmp, col_tmp) ==
    IF sps = <<>> THEN M
    ELSE LET sfnum == Head(sps).n
         IN  AssignLoop_oddCols(AddBCToFitMatrix(Head(sps).Spline, M, line_tmp, col_tmp),
                                Tail(sps), line_tmp + sfnum + 1, col_tmp + 2 * sfnum + 1)

RECURSIVE AssignLoop(_, _, _, _)
AssignLoop(M, sps, line_tmp, col_tmp) ==
    IF sps = <<>> THEN M
    ELSE LET sfnum == Head(sps).n
         IN  AssignLoop(AddBCToFitMatrix(Head(sps).Spline, M, line_tmp, col_tmp),
                        Tail(sps), line_tmp + sfnum + 1, col_tmp + 2 * (sfnum + 1))

\* FmatchAssignSmoothCondsToMatrix
FmatchAssignSmoothCondsToMatrix(Matrix, sps) == AssignLoop(Clear(Matrix), sps, 0, 0)

BeginCG ==
    /\ pc = "constructed"
    /\ LET reg == Register(_nonbonded, FALSE,
                           Register(_bonded, TRUE,
                                    [Splines |-> <<>>, line_cntr |-> 0, col_cntr |-> 0]))
           nf == _options.frames_per_block
           cls == _options.constrainedLS
       IN  /\ BlockNum' = 0
           /\ line_cntr' = reg.line_cntr
           /\ col_cntr' = reg.col_cntr
           /\ N_frames' = nf
           /\ ConstrLeastSQ' = cls
           /\ Splines' = reg.Splines
           /\ N' = NBeads
           /\ L' = 0
           /\ IF cls
              THEN /\ LeastSQOffset' = 0
                   /\ B_constr' = FmatchAssignSmoothCondsToMatrix(
                                      ZeroMatrix(reg.line_cntr, reg.col_cntr), reg.Splines)
                   /\ Bseen' = {B_constr'}
                   \* _A and _b are resized and not cleared
                   /\ \E g \in UninitVals :
                        /\ _A' = MakeMatrix(3 * NBeads * nf, reg.col_cntr,
                                [p \in Places(3 * NBeads * nf, reg.col_cntr) |-> g])
                        /\ _b' = [i \in 0..(3 * NBeads * nf - 1) |-> g]
              ELSE /\ LeastSQOffset' = reg.line_cntr
                   /\ _A' = FmatchAssignSmoothCondsToMatrix(
                                ZeroMatrix(reg.line_cntr + 3 * NBeads * nf, reg.col_cntr),
                                reg.Splines)
                   /\ _b' = ZeroVec(reg.line_cntr + 3 * NBeads * nf)
                   /\ B_constr' = B_constr
                   /\ Bseen' = Bseen
           /\ _x' = ZeroVec(reg.col_cntr)
    /\ pc' = "running"
    /\ UNCHANGED <<_options, _bonded, _nonbonded, frames, solves, conf, calls,
                   errors, Xseen, Xbag, out, writable, asserts, lsq,
                   iie, erd, polar, tensor>>

(* ------------------------------------------------ frame sampling *)
RECURSIVE Flatten(_)
Flatten(ss) == IF ss = <<>> THEN <<>> ELSE Head(ss) \o Flatten(Tail(ss))

Abs(a) == IF a < 0 THEN -a ELSE a

\* the exact square root and the exact quotient
ISqrt(sq) == CHOOSE q \in 0..sq : q * q = sq

ExactDiv(a, d) == CHOOSE q \in (-Abs(a))..Abs(a) : q * d = a

\* pair->dist() and the normalised pair->r()
dist(r) == ISqrt(r[1] * r[1] + r[2] * r[2] + r[3] * r[3])

normalize(r) == [k \in 1..3 |-> ExactDiv(r[k], dist(r))]

\* the row of (frame counter L, axis, bead): axis 0, 1, 2 is x, y, z
RowOf_nextFrame(axis, bead) == LeastSQOffset + 3 * N * (L + 1) + axis * N + bead

RowOf_noOffset(axis, bead) == 3 * N * L + axis * N + bead

RowOf_beadMajor(axis, bead) == LeastSQOffset + 3 * N * L + 3 * bead + axis

RowOf(axis, bead) == LeastSQOffset + 3 * N * L + axis * N + bead

\* one SP.AddToFitMatrix(_A, var, row, mpos, scale) call
Call(sinfo, var, axis, bead, scale) ==
    [sp |-> sinfo.splineIndex, x |-> var, offset1 |-> RowOf(axis, bead),
     offset2 |-> sinfo.matr_pos, scale |-> scale, axis |-> axis, bead |-> bead]

\* EvalBonded: the calls made for its interactions, in order
EvalBonded(sinfo, interList) ==
    Flatten([k \in 1..Len(interList) |->
        LET inter == interList[k]
            var == inter.var
        IN  Flatten([loop \in 1..Len(inter.beads) |->
                LET ii == inter.beads[loop]
                    gradient == inter.grad[loop]
                IN  <<Call(sinfo, var, 0, ii, gradient[1]),
                      Call(sinfo, var, 1, ii, gradient[2]),
                      Call(sinfo, var, 2, ii, gradient[3])>>])])

\* the six calls EvalNonbonded makes for one pair
PairCalls_sameSignZ(sinfo, pair) ==
    LET var == dist(pair.r)
        gradient == normalize(pair.r)
    IN  <<Call(sinfo, var, 0, pair.first, gradient[1]),
          Call(sinfo, var, 1, pair.first, gradient[2]),
          Call(sinfo, var, 2, pair.first, gradient[3]),
          Call(sinfo, var, 0, pair.second, -gradient[1]),
          Call(sinfo, var, 1, pair.second, -gradient[2]),
          Call(sinfo, var, 2, pair.second, gradient[3])>>

PairCalls(sinfo, pair) ==
    LET iatom == pair.first
        jatom == pair.second
        var == dist(pair.r)
        gradient == normalize(pair.r)
    IN  <<Call(sinfo, var, 0, iatom, gradient[1]),
          Call(sinfo, var, 1, iatom, gradient[2]),
          Call(sinfo, var, 2, iatom, gradient[3]),
          Call(sinfo, var, 0, jatom, -gradient[1]),
          Call(sinfo, var, 1, jatom, -gradient[2]),
          Call(sinfo, var, 2, jatom, -gradient[3])>>

\* EvalNonbonded: the calls made for the pairs of the neighbour list, in order
EvalNonbonded(sinfo, NBL) ==
    Flatten([k \in 1..Len(NBL) |-> PairCalls(sinfo, NBL[k])])

\* the first loop of EvalConfiguration
SampleCalls(cf) ==
    Flatten([k \in 1..Len(Splines) |->
        IF Splines[k].bonded THEN EvalBonded(Splines[k], cf.bonds[k])
        ELSE EvalNonbonded(Splines[k], cf.pairs[k])])

RECURSIVE ApplyCalls(_, _)
\* the effect of the calls on the matrix
ApplyCalls(M, cs) ==
    IF cs = <<>> THEN M
    ELSE LET c == Head(cs)
         IN  ApplyCalls(AddToFitMatrix(Splines[c.sp + 1].Spline, M, c.x, c.offset1,
                                       c.offset2, c.scale),
                        Tail(cs))

\* the loop for the forces vector
SetForces(b, F) ==
    [r \in DOMAIN b |->
        IF \E iatom \in 0..(N - 1), axis \in 0..2 : r = RowOf(axis, iatom)
        THEN LET iatom == CHOOSE i \in 0..(N - 1) : \E axis \in 0..2 : r = RowOf(axis, i)
                 axis == CHOOSE a \in 0..2 : r = RowOf(a, iatom)
             IN  F[iatom][axis + 1]
        ELSE b[r]]

\* the RHS after the forces branch
ForcesBranch(b, cf) == IF cf.HasF THEN SetForces(b, cf.F) ELSE b

(* ------------------------------------------------------------ solve *)
Sign(a) == IF a >= 0 THEN 1 ELSE -1

RECURSIVE QRLoop(_, _, _)
\* gsl_linalg_QR_decomp: Householder QR in place, column by column; the
\* result holds R on and above the diagonal, the Householder vectors below
\* it, and the coefficients tau
QRLoop(m, tau, k) ==
    IF k >= m.size1 \/ k >= m.size2 THEN [matrix |-> m, tau |-> tau]
    ELSE LET alpha == At(m, k, k)
             col == Stored([i \in 0..(m.size1 - 1) |-> IF i > k THEN At(m, i, k) ELSE 0])
             xnorm2 == DotVV(col, col, m.size1)
         IN  IF xnorm2 = 0
             THEN QRLoop(m, [tau EXCEPT ![k] = 0], k + 1)
             ELSE LET beta == (-Sign(alpha)) * ISqrt(alpha * alpha + xnorm2)
                      tk == ExactDiv(beta - alpha, beta)
                      v == Stored([i \in 0..(m.size1 - 1) |->
                               IF i < k THEN 0
                               ELSE IF i = k THEN 1
                               ELSE ExactDiv(At(m, i, k), alpha - beta)])
                      w == Stored([j \in 0..(m.size2 - 1) |->
                               DotVV(v, [i \in 0..(m.size1 - 1) |-> At(m, i, j)], m.size1)])
                      m2 == MakeMatrix(m.size1, m.size2,
                                [p \in Places(m.size1, m.size2) |->
                                    LET i == p \div m.size2
                                        j == p % m.size2
                                    IN  IF i < k \/ j < k THEN At(m, i, j)
                                        ELSE IF j = k
                                             THEN (IF i = k THEN beta ELSE v[i])
                                             ELSE At(m, i, j) - tk * v[i] * w[j]])
                  IN  QRLoop(m2, [tau EXCEPT ![k] = tk], k + 1)

gsl_linalg_QR_decomp(m, tausize) == QRLoop(m, ZeroVec(tausize), 0)

RECURSIVE QProduct(_, _, _)
\* the loop k = line_cntr .. 1 that multiplies Q by Q_k = I - tau_k v v^T
QProduct(Q, qr, k) ==
    IF k <= 0 THEN Q
    ELSE LET v == Stored([icout \in 0..(col_cntr - 1) |->
                      IF icout < k - 1 THEN 0
                      ELSE IF icout = k - 1 THEN 1
                      ELSE At(qr.matrix, icout, k - 1)])
             tmp == qr.tau[k - 1]
             \* Q_k = I - tmp * outer_prod(v, v), so prec_prod(Q, Q_k) is
             \* Q - tmp * outer_prod(Q v, v)
             Qv == ProdVec(Q, v)
         IN  QProduct(MakeMatrix(col_cntr, col_cntr,
                                 [p \in Places(col_cntr, col_cntr) |->
                                     Q.data[p] - tmp * Qv[p \div col_cntr] * v[p % col_cntr]]),
                      qr, k - 1)

\* Q as rebuilt from the factorization of trans(B_constr)
ExtractQ_skipLast(qr) == Trans(QProduct(Identity(col_cntr), qr, line_cntr - 1))

ExtractQ_noTrans(qr) == QProduct(Identity(col_cntr), qr, line_cntr)

ExtractQ(qr) == Trans(QProduct(Identity(col_cntr), qr, line_cntr))

\* the coefficient vectors the least-squares routine is taken to return
SolScale == {0, 1}

\* gsl_linalg_QR_lssolve after gsl_linalg_QR_decomp: a coefficient vector for
\* the columns of M; the routine rejects a matrix with fewer rows than columns
LSSolve(M, rhs) ==
    IF M.size1 < M.size2 THEN {}
    ELSE {Stored([c \in 0..(M.size2 - 1) |-> sc * (c + 1)]) : sc \in SolScale}

\* the first column of the block A2 of _A, and the first free coefficient
SplitAt == col_cntr \div 2

\* a frame that did not reach the solve of FmatchAccumulateData
NoSolve == [A |-> <<>>, b |-> <<>>]

\* the solve of FmatchAccumulateData: the solution and what it leaves in _A
Solutions(A, b) ==
    IF ConstrLeastSQ
    THEN LET B_constr_Tr == Trans(B_constr)
             qr == gsl_linalg_QR_decomp(B_constr_Tr, line_cntr)
             Q == ExtractQ(qr)
             AQ == Prod(A, Q)
             A2 == [size1 |-> AQ.size1, size2 |-> col_cntr \div 2,
                    data |-> [p \in 0..(AQ.size1 * (col_cntr \div 2) - 1) |->
                                 At(AQ, p \div (col_cntr \div 2),
                                    (p % (col_cntr \div 2)) + SplitAt)]]
         IN  {[x |-> ProdVec(Q, Stored([i \in 0..(col_cntr - 1) |->
                                           IF i < SplitAt THEN 0 ELSE xf[i - SplitAt]])),
               A |-> AQ] : xf \in LSSolve(A2, b)}
    ELSE \* the factorization is done in place on _A and leaves its R and
         \* Householder vectors there: content other than the block's rows
         {[x |-> xs, A |-> MakeMatrix(A.size1, A.size2,
                                      [p \in Places(A.size1, A.size2) |-> 5])] :
             xs \in LSSolve(A, b)}

\* the coefficient of the solution that block_res[i] of a channel takes
SliceIndex_noOffset(mp, i) == i

SliceIndex(mp, i) == i + mp

\* the values of the channel's spline, loaded with its slice of x, at the
\* output coordinates
BlockValues(sinfo, x) ==
    LET block_res == Stored([i \in 0..(2 * (sinfo.n + 1) - 1) |->
                                x[SliceIndex(sinfo.matr_pos, i)]])
        SP == setSplineData(sinfo.Spline, block_res)
    IN  Stored([i \in 0..(sinfo.res_output_coeff * (sinfo.n + 1) - 1) |->
                   Calculate(SP, getGridPoint(SP, 0) + i * sinfo.del_x_out)])

\* the second part of FmatchAccumulateData, for one channel
Accumulate_linearSum2(sinfo, x) ==
    LET block_res == Stored([i \in 0..(2 * (sinfo.n + 1) - 1) |->
                                x[SliceIndex(sinfo.matr_pos, i)]])
        val == BlockValues(sinfo, x)
    IN  [sinfo EXCEPT
            !.block_res = block_res,
            !.Spline = setSplineData(sinfo.Spline, block_res),
            !.resSum = [i \in DOMAIN @ |-> @[i] + val[i]],
            !.resSum2 = [i \in DOMAIN @ |-> @[i] + val[i]]]

Accumulate_lastSquare(sinfo, x) ==
    LET block_res == Stored([i \in 0..(2 * (sinfo.n + 1) - 1) |->
                                x[SliceIndex(sinfo.matr_pos, i)]])
        val == BlockValues(sinfo, x)
    IN  [sinfo EXCEPT
            !.block_res = block_res,
            !.Spline = setSplineData(sinfo.Spline, block_res),
            !.resSum = [i \in DOMAIN @ |-> @[i] + val[i]],
            !.resSum2 = [i \in DOMAIN @ |-> val[i] * val[i]]]

Accumulate_assign(sinfo, x) ==
    LET block_res == Stored([i \in 0..(2 * (sinfo.n + 1) - 1) |->
                                x[SliceIndex(sinfo.matr_pos, i)]])
        val == BlockValues(sinfo, x)
    IN  [sinfo EXCEPT
            !.block_res = block_res,
            !.Spline = setSplineData(sinfo.Spline, block_res),
            !.resSum = [i \in DOMAIN @ |-> val[i]],
            !.resSum2 = [i \in DOMAIN @ |-> val[i] * val[i]]]

Accumulate(sinfo, x) ==
    LET block_res == Stored([i \in 0..(2 * (sinfo.n + 1) - 1) |->
                                x[SliceIndex(sinfo.matr_pos, i)]])
        val == BlockValues(sinfo, x)
    IN  [sinfo EXCEPT
            !.block_res = block_res,
            !.Spline = setSplineData(sinfo.Spline, block_res),
            !.resSum = [i \in DOMAIN @ |-> @[i] + val[i]],
            !.resSum2 = [i \in DOMAIN @ |-> @[i] + val[i] * val[i]]]

\* the matrices after the reset that follows a solve
ResetBlock_resizeA(A) ==
    IF ConstrLeastSQ
    THEN [A |-> ZeroMatrix(line_cntr, col_cntr), b |-> ZeroVec(VSize(_b)),
          B |-> FmatchAssignSmoothCondsToMatrix(B_constr, Splines)]
    ELSE [A |-> FmatchAssignSmoothCondsToMatrix(ZeroMatrix(line_cntr, col_cntr), Splines),
          b |-> ZeroVec(VSize(_b)), B |-> B_constr]

ResetBlock_clearB(A) ==
    IF ConstrLeastSQ
    THEN [A |-> Clear(A), b |-> ZeroVec(VSize(_b)), B |-> Clear(B_constr)]
    ELSE [A |-> FmatchAssignSmoothCondsToMatrix(A, Splines), b |-> ZeroVec(VSize(_b)),
          B |-> B_constr]

ResetBlock(A) ==
    IF ConstrLeastSQ
    THEN [A |-> Clear(A), b |-> ZeroVec(VSize(_b)),
          B |-> FmatchAssignSmoothCondsToMatrix(B_constr, Splines)]
    ELSE [A |-> FmatchAssignSmoothCondsToMatrix(A, Splines), b |-> ZeroVec(VSize(_b)),
          B |-> B_constr]

\* whether the frame counter, already advanced, completes a block
BlockComplete(L1) == L1 % N_frames = 0

\* the frame counter after a completed block
LAfterBlock_keep(L1) == L1

LAfterBlock(L1) == 0

EvalConfiguration(cf) ==
    /\ pc = "running"
    /\ frames < MaxFrames
    /\ LET cs == SampleCalls(cf)
           A1 == ApplyCalls(_A, cs)
           b1 == ForcesBranch(_b, cf)
           L1 == L + 1
       IN  /\ calls' = cs
           /\ conf' = cf
           /\ errors' = IF cf.HasF THEN errors ELSE errors + 1
           /\ frames' = frames + 1
           /\ IF BlockComplete(L1)
              THEN \E sol \in Solutions(A1, b1) :
                     LET rs == ResetBlock(sol.A)
                     IN  /\ BlockNum' = BlockNum + 1
                         /\ _x' = sol.x
                         /\ Splines' = [k \in 1..Len(Splines) |-> Accumulate(Splines[k], sol.x)]
                         /\ Xseen' = Xseen \cup {sol.x}
                         /\ Xbag' = Xbag (+) SetToBag({sol.x})
                         /\ solves' = solves + 1
                         /\ lsq' = [A |-> A1, b |-> b1]
                         /\ Bseen' = IF ConstrLeastSQ THEN Bseen \cup {B_constr} ELSE Bseen
                         /\ L' = LAfterBlock(L1)
                         /\ _A' = rs.A
                         /\ _b' = rs.b
                         /\ B_constr' = rs.B
              ELSE /\ L' = L1
                   /\ lsq' = NoSolve
                   /\ _A' = A1
                   /\ _b' = b1
                   /\ UNCHANGED <<BlockNum, _x, Splines, Xseen, Xbag, solves, Bseen,
                                  B_constr>>
    /\ UNCHANGED <<pc, _options, _bonded, _nonbonded, line_cntr, col_cntr, N_frames,
                   ConstrLeastSQ, N, LeastSQOffset, out, writable, asserts,
                   iie, erd, polar, tensor>>

(* ------------------------------------------------------------ EndCG *)
\* a quotient of two doubles, kept exact: den = 0 is a division by zero
Quot(num, den) == [num |-> num, den |-> den]

\* the square root of a quotient, kept as its radicand
Sqrt(q) == [radicand |-> q]

\* char file_name[20]
BufSize == 20

\* the name assembled by strcpy and strcat
FileName(sinfo) == sinfo.splineName \o ".force"

\* whether the name and its terminating NUL fit in file_name
Fits(sinfo) == Len(FileName(sinfo)) + 1 <= BufSize

\* what a write past the end of file_name can lead to: nothing visible, a
\* different file name, or the end of the process
Overflows == {"intact", "garbled", "crash"}

\* the entry of out for a channel whose file could not be opened: the
\* stream is in its failed state and every write to it is dropped
NoFile == [name |-> "", index |-> -1, lines |-> <<>>]

\* what EndCG computes and writes for one channel
EndChannel_perFrame(sinfo) ==
    LET pts == 0..(sinfo.res_output_coeff * (sinfo.n + 1) - 1)
        result == [i \in pts |-> Quot(sinfo.resSum[i], frames)]
        error == [i \in pts |->
                    Sqrt(Quot(sinfo.resSum2[i] * frames - sinfo.resSum[i] * sinfo.resSum[i],
                              frames * frames))]
    IN  [sinfo |-> [sinfo EXCEPT !.result = result, !.error = error,
                                 !.Spline = setSplineData(@, result)],
         file |-> [name |-> FileName(sinfo), index |-> sinfo.splineIndex,
                   lines |-> [i \in pts |->
                                [x |-> getGridPoint(sinfo.Spline, 0) + i * sinfo.del_x_out,
                                 force |-> Quot((-1) * result[i].num, result[i].den),
                                 error |-> error[i]]]]]

EndChannel_countPartial(sinfo) ==
    LET cnt == BlockNum + (IF L > 0 THEN 1 ELSE 0)
        pts == 0..(sinfo.res_output_coeff * (sinfo.n + 1) - 1)
        result == [i \in pts |-> Quot(sinfo.resSum[i], cnt)]
        error == [i \in pts |->
                    Sqrt(Quot(sinfo.resSum2[i] * cnt - sinfo.resSum[i] * sinfo.resSum[i],
                              cnt * cnt))]
    IN  [sinfo |-> [sinfo EXCEPT !.result = result, !.error = error,
                                 !.Spline = setSplineData(@, result)],
         file |-> [name |-> FileName(sinfo), index |-> sinfo.splineIndex,
                   lines |-> [i \in pts |->
                                [x |-> getGridPoint(sinfo.Spline, 0) + i * sinfo.del_x_out,
                                 force |-> Quot((-1) * result[i].num, result[i].den),
                                 error |-> error[i]]]]]

EndChannel(sinfo) ==
    LET pts == 0..(sinfo.res_output_coeff * (sinfo.n + 1) - 1)
        \* result[i] = resSum[i] / BlockNum
        result == [i \in pts |-> Quot(sinfo.resSum[i], BlockNum)]
        \* error[i] = sqrt(resSum2[i] / BlockNum - result[i] * result[i])
        error == [i \in pts |->
                    Sqrt(Quot(sinfo.resSum2[i] * BlockNum - sinfo.resSum[i] * sinfo.resSum[i],
                              BlockNum * BlockNum))]
    IN  [sinfo |-> [sinfo EXCEPT !.result = result, !.error = error,
                                 !.Spline = setSplineData(@, result)],
         file |-> [name |-> FileName(sinfo), index |-> sinfo.splineIndex,
                   lines |-> [i \in pts |->
                                [x |-> getGridPoint(sinfo.Spline, 0) + i * sinfo.del_x_out,
                                 force |-> Quot((-1) * result[i].num, result[i].den),
                                 error |-> error[i]]]]]

RECURSIVE EndLoop(_, _, _)
\* the loop of EndCG over the channels sps still to do, acc holding the
\* channels done and their files
EndLoop(sps, acc, ub) ==
    IF sps = <<>> THEN [Splines |-> acc.Splines, out |-> acc.out, pc |-> "done"]
    ELSE LET sinfo == Head(sps)
             e == EndChannel(sinfo)
         IN  IF ~Fits(sinfo) /\ ub = "crash"
             THEN [Splines |-> acc.Splines \o sps, out |-> acc.out, pc |-> "crashed"]
             ELSE LET opened == IF Fits(sinfo) \/ ub = "intact" THEN e.file
                                ELSE [e.file EXCEPT !.name = "?"]
                      file == IF writable THEN opened ELSE NoFile
                  IN  EndLoop(Tail(sps),
                              [Splines |-> Append(acc.Splines, e.sinfo),
                               out |-> Append(acc.out, file)],
                              ub)

EndCG ==
    /\ pc = "running"
    /\ \E ub \in Overflows :
         LET end == EndLoop(Splines, [Splines |-> <<>>, out |-> <<>>], ub)
         IN  /\ Splines' = end.Splines
             /\ out' = end.out
             /\ pc' = end.pc
    /\ UNCHANGED <<_options, _bonded, _nonbonded, BlockNum, line_cntr, col_cntr,
                   N_frames, ConstrLeastSQ, N, L, LeastSQOffset, _A, _b, _x, B_constr,
                   frames, solves, conf, calls, errors, Bseen, Xseen, Xbag, writable,
                   asserts, lsq, iie, erd, polar, tensor>>

(* ------------------------------------------------------ configurations *)
RECURSIVE SeqsUpTo(_, _)
\* the sequences over S of length at most k
SeqsUpTo(S, k) ==
    IF k = 0 THEN {<<>>}
    ELSE LET shorter == SeqsUpTo(S, k - 1)
         IN  shorter \cup {Append(q, e) : q \in shorter, e \in S}

\* the channel options of a registration
RegOptions == {ChannelOptions("ch", 0, n, 1) : n \in 1..MaxN}

CGForceMatching(dir_ok, opts, bonded, nonbonded) ==
    /\ pc = "constructed"
    /\ writable = dir_ok
    /\ asserts = 0
    /\ lsq = NoSolve
    /\ _options = opts
    /\ _bonded = bonded
    /\ _nonbonded = nonbonded
    /\ Splines = <<>>
    /\ BlockNum = 0 /\ line_cntr = 0 /\ col_cntr = 0 /\ N_frames = 0
    /\ ConstrLeastSQ = FALSE /\ N = 0 /\ L = 0 /\ LeastSQOffset = 0
    /\ _A = ZeroMatrix(0, 0) /\ _b = ZeroVec(0) /\ _x = ZeroVec(0)
    /\ B_constr = ZeroMatrix(0, 0)
    /\ frames = 0 /\ solves = 0
    /\ conf = NoConf /\ calls = <<>> /\ errors = 0
    /\ Bseen = {} /\ Xseen = {} /\ Xbag = EmptyBag /\ out = <<>>

\* a run of csg_fmatch alone, before BeginCG
ConstructedIn(dir_ok, opts, bonded, nonbonded) ==
    /\ CGForceMatching(dir_ok, opts, bonded, nonbonded)
    /\ iie = NotRun
    /\ erd = NotRun
    /\ polar = NotRun
    /\ tensor = NotRun

\* the state before BeginCG of a run whose output files can be opened
Constructed(opts, bonded, nonbonded) == ConstructedIn(TRUE, opts, bonded, nonbonded)

InitBegin ==
    \E bonded \in SeqsUpTo(RegOptions, MaxChannels),
       nonbonded \in SeqsUpTo(RegOptions, MaxChannels),
       cls \in BOOLEAN :
        Constructed([frames_per_block |-> 1, constrainedLS |-> cls], bonded, nonbonded)

NextBegin == BeginCG

SpecBegin == InitBegin /\ [][NextBegin]_vars

\* the channels of a run: one bonded and one non-bonded channel
RunBonded == <<ChannelOptions("bond", 0, 1, 2)>>

RunNonbonded == <<ChannelOptions("A-A", 1, MaxN, 1)>>

\* the interaction lists a frame may hold for a bonded channel
BondLists(sinfo) ==
    {<<>>, <<[beads |-> <<0, NBeads - 1>>, var |-> getGridPoint(sinfo.Spline, 0) + 1,
               grad |-> <<<<1, -2, 3>>, <<2, 1, -1>>>>]>>}

\* the separation vectors of a pair at a sampled distance
PairVecs(sinfo) ==
    LET lo == getGridPoint(sinfo.Spline, 0) + 1
        hi == getGridPoint(sinfo.Spline, sinfo.n) - 1
    IN  {<<lo, 0, 0>>, <<0, -hi, 0>>, <<0, 0, hi>>}

\* the neighbour lists a frame may hold for a non-bonded channel
PairLists(sinfo) ==
    {<<>>} \cup {<<[first |-> 0, second |-> NBeads - 1, r |-> r]>> : r \in PairVecs(sinfo)}

RECURSIVE Samples(_, _)
\* per channel 1..k a sample list of the given kind, none for the other kind
Samples(k, bonded_) ==
    IF k = 0 THEN {<<>>}
    ELSE LET mine == IF Splines[k].bonded # bonded_ THEN {<<>>}
                     ELSE IF bonded_ THEN BondLists(Splines[k])
                     ELSE PairLists(Splines[k])
         IN  {Append(q, e) : q \in Samples(k - 1, bonded_), e \in mine}

\* the observed forces of a frame that has them
FrameForces == [i \in Beads |-> <<i + 1, -(i + 2), 3 * (i + 1)>>]

\* a frame with forces and any of the sample lists
ForceConfs ==
    {[bonds |-> bl, pairs |-> pl, HasF |-> TRUE, F |-> FrameForces] :
        bl \in Samples(Len(Splines), TRUE), pl \in Samples(Len(Splines), FALSE)}

\* the configurations a frame may be: one with forces, or one of them with
\* every channel sampled and the forces missing
Confs ==
    ForceConfs \cup
    {[cf EXCEPT !.HasF = FALSE, !.F = NoConf.F] :
        cf \in {c \in ForceConfs :
                  /\ \A k \in 1..Len(Splines) : c.bonds[k] # <<>> \/ c.pairs[k] # <<>>
                  /\ \A k \in 1..Len(Splines) :
                        c.pairs[k] # <<>> => c.pairs[k][1].r[1] # 0}}

\* the values of cg.fmatch.frames_per_block of a run
BlockSizes == {1, 2}

Init ==
    \E nf \in BlockSizes, cls \in BOOLEAN :
        Constructed([frames_per_block |-> nf, constrainedLS |-> cls], RunBonded, RunNonbonded)

Next ==
    \/ BeginCG
    \/ \E cf \in Confs : EvalConfiguration(cf)
    \/ EndCG

Spec == Init /\ [][Next]_vars

\* channel names of 3, 13 and 14 characters
ChannelNames == {"A-A", "CG-CG-nonbond", "CG-CG-nonbond1"}

\* runs whose non-bonded channel has any of the names, in a directory
\* where the output files can or cannot be opened
InitFiles ==
    \E nm \in ChannelNames, dir_ok \in BOOLEAN :
        ConstructedIn(dir_ok, [frames_per_block |-> 1, constrainedLS |-> FALSE],
                      RunBonded, <<ChannelOptions(nm, 1, MaxN, 1)>>)

SpecFiles == InitFiles /\ [][Next]_vars

\* the runs with the constrained solve
InitSolve ==
    \E nf \in BlockSizes :
        Constructed([frames_per_block |-> nf, constrainedLS |-> TRUE], RunBonded, RunNonbonded)

\* the frames with forces in which every channel is sampled
SolveConfs ==
    {cf \in ForceConfs : \A k \in 1..Len(Splines) : cf.bonds[k] # <<>> \/ cf.pairs[k] # <<>>}

NextSolve ==
    \/ BeginCG
    \/ \E cf \in SolveConfs : EvalConfiguration(cf)
    \/ EndCG

SpecSolve == InitSolve /\ [][NextSolve]_vars

(* ------------------------------ multistate iie potential update script *)
\* the longest list cg.inverse.multistate.state_names of a run
MaxStates == 2

\* values of cg.inverse.iie.method, and the state directories of a run
IieMethods == {"newton", "newton-mod", "gauss-newton"}

StateDirs == {"s1", "s2"}

\* the variable the second test of the method reads: it is never assigned,
\* and an unset variable expands to the empty string
iie_metho == ""

GaussNewtonOnly == "Multistate only works as a Gauss-Newton method (more residuals than potentials)"

TopolNotFound == "topol file not found, possibly you have to add it to cg.inverse.filelist"

\* the script after its properties are read
IieStarted(method, dcdh, names, files) ==
    [pc |-> "method", iie_method |-> method, tgt_dcdh |-> dcdh, state_names |-> names,
     topol_files |-> files, ran |-> <<>>, died |-> ""]

\* die: the message, and nothing after it
die(msg) == [iie EXCEPT !.pc = "died", !.died = msg]

\* the test "newton not supported any more"
RejectsMethod(method) == method = "newton-mod" \/ iie_metho = "newton"

IieCheckMethod ==
    /\ iie.pc = "method"
    /\ iie' = IF RejectsMethod(iie.iie_method) THEN die(GaussNewtonOnly)
              ELSE [iie EXCEPT !.pc = "topology"]
    /\ UNCHANGED <<fmatch, erd, polar, tensor>>

RECURSIVE TopologyLoop(_, _)
\* the loop over the states that collects topologies and volumes: the
\* commands run, and whether a topology file was missing
TopologyLoop(names, acc) ==
    IF names = <<>> THEN [ran |-> acc, missing |-> FALSE]
    ELSE IF Head(names) \notin iie.topol_files THEN [ran |-> acc, missing |-> TRUE]
    ELSE TopologyLoop(Tail(names), Append(acc, [cmd |-> "csg_dump", state |-> Head(names)]))

IieTopology ==
    /\ iie.pc = "topology"
    /\ LET t == TopologyLoop(iie.state_names, iie.ran)
       IN  iie' = IF t.missing THEN [die(TopolNotFound) EXCEPT !.ran = t.ran]
                  ELSE [iie EXCEPT !.pc = "rdf", !.ran = t.ran]
    /\ UNCHANGED <<fmatch, erd, polar, tensor>>

\* the commands of one of the two loops over the states
PerState(names, cmd, intra) ==
    Flatten([k \in 1..Len(names) |->
        <<[cmd |-> cmd, state |-> names[k]]>>
        \o (IF iie.tgt_dcdh THEN <<>> ELSE <<[cmd |-> intra, state |-> names[k]]>>)])

\* calc RDFs
IieCalcRdfs ==
    /\ iie.pc = "rdf"
    /\ iie' = [iie EXCEPT !.pc = "resample",
                          !.ran = @ \o PerState(iie.state_names, "rdf", "rdf --only-intra-nb")]
    /\ UNCHANGED <<fmatch, erd, polar, tensor>>

\* resample target distributions
IieResample ==
    /\ iie.pc = "resample"
    /\ iie' = [iie EXCEPT !.pc = "update",
                          !.ran = @ \o PerState(iie.state_names, "resample target",
                                                "resample target --no-extrap")]
    /\ UNCHANGED <<fmatch, erd, polar, tensor>>

\* the potential update and what follows it
IieUpdate ==
    /\ iie.pc = "update"
    /\ iie' = [iie EXCEPT !.pc = "exit",
                          !.ran = @ \o <<[cmd |-> "update iie_pot", state |-> iie.iie_method],
                                         [cmd |-> "update ibi_single", state |-> ""]>>]
    /\ UNCHANGED <<fmatch, erd, polar, tensor>>

InitIie ==
    /\ CGForceMatching(TRUE, [frames_per_block |-> 1, constrainedLS |-> FALSE], <<>>, <<>>)
    /\ erd = NotRun
    /\ polar = NotRun
    /\ tensor = NotRun
    /\ \E method \in IieMethods, dcdh \in BOOLEAN,
          names \in SeqsUpTo(StateDirs, MaxStates), files \in SUBSET StateDirs :
            iie = IieStarted(method, dcdh, names, files)

NextIie ==
    \/ IieCheckMethod
    \/ IieTopology
    \/ IieCalcRdfs
    \/ IieResample
    \/ IieUpdate

SpecIie == InitIie /\ [][NextIie]_vars

(* ------------------------------------------ ERDiabatizationFrame *)
\* the largest magnitude of a state index in the user options
MaxIdx == 5

QmTypes == {"singlet", "triplet"}

\* the frame before ParseOptions, with the user options it will be given
ErdConstructed(user_options) ==
    [pc |-> "constructed", user_options |-> user_options,
     _options |-> [state_idx_1 |-> 0, state_idx_2 |-> 0], what |-> "", log |-> <<>>]

\* the two tests of ParseOptions on the indices, in the order of the code:
\* the exception thrown and the lines logged before it
CheckIndices_secondFirst(idx1, idx2) ==
    IF idx2 < 1 THEN [what |-> "State idx 2 must start from 1.", log |-> <<>>]
    ELSE IF idx1 < 1 THEN [what |-> "State idx 1 must start from 1.", log |-> <<"State 2">>]
    ELSE [what |-> "", log |-> <<"State 2", "State 1">>]

CheckIndices(idx1, idx2) ==
    IF idx1 < 1 THEN [what |-> "State idx 1 must start from 1.", log |-> <<>>]
    ELSE IF idx2 < 1 THEN [what |-> "State idx 2 must start from 1.", log |-> <<"State 1">>]
    ELSE [what |-> "", log |-> <<"State 1", "State 2">>]

ParseOptions ==
    /\ erd.pc = "constructed"
    /\ LET options == erd.user_options
           chk == CheckIndices(options.state_idx_1, options.state_idx_2)
       IN  erd' = [erd EXCEPT
                     !._options = [state_idx_1 |-> options.state_idx_1,
                                   state_idx_2 |-> options.state_idx_2],
                     !.log = <<"Type : " \o options.qmtype>> \o chk.log,
                     !.what = chk.what,
                     !.pc = IF chk.what = "" THEN "parsed" ELSE "thrown"]
    /\ UNCHANGED <<fmatch, iie, polar, tensor>>

InitErd ==
    /\ CGForceMatching(TRUE, [frames_per_block |-> 1, constrainedLS |-> FALSE], <<>>, <<>>)
    /\ iie = NotRun
    /\ polar = NotRun
    /\ tensor = NotRun
    /\ \E idx1, idx2 \in (-MaxIdx)..MaxIdx, qmtype \in QmTypes :
          erd = ErdConstructed([state_idx_1 |-> idx1, state_idx_2 |-> idx2, qmtype |-> qmtype])

NextErd == ParseOptions

SpecErd == InitErd /\ [][NextErd]_vars

(* ------------------------------------------------------------ PolarSeg *)
\* the most sites of a segment, and the most Translate calls of a run
MaxSites == 2

MaxMoves == 2

\* vec: sum, and product with a scalar
VAdd(u, v) == <<u[1] + v[1], u[2] + v[2], u[3] + v[3]>>

VScale(k, v) == <<k * v[1], k * v[2], k * v[3]>>

RECURSIVE VSum(_)
VSum(ps) == IF ps = <<>> THEN <<0, 0, 0>> ELSE VAdd(Head(ps), VSum(Tail(ps)))

\* site positions and shifts of a run
SitePositions == {<<0, 0, 0>>, <<1, -2, 3>>}

Shifts == {<<1, 0, -1>>, <<0, 2, 0>>}

\* a vec divided by a count, kept exact: num / den in every component
VQuot(num, den) == [num |-> num, den |-> den]

\* PolarSeg::CalcPos: the sum of the site positions, divided by their
\* number when there are sites
CalcPosOf(sites) == VQuot(VSum(sites), IF Len(sites) > 0 THEN Len(sites) ELSE 1)

\* APolarSite::Translate: the position of the site moves by shift
SiteTranslate(pos, shift) == VAdd(pos, shift)

\* PolarSeg::Translate: APolarSite::Translate(shift) on every site, and
\* _pos += shift
TranslateSeg(seg, shift) ==
    [seg EXCEPT !.sites = [i \in 1..Len(seg.sites) |-> SiteTranslate(seg.sites[i], shift)],
                !._pos = VQuot(VAdd(seg._pos.num, VScale(seg._pos.den, shift)), seg._pos.den)]

\* a segment with its sites, positioned by CalcPos, and its polar neighbours
PolarSegOf(sites, nbs) == [sites |-> sites, _pos |-> CalcPosOf(sites), _nbs |-> nbs]

CalcPos(i) ==
    /\ polar.pc = "live"
    /\ i \in 1..Len(polar.segs)
    /\ polar' = [polar EXCEPT !.segs[i]._pos = CalcPosOf(polar.segs[i].sites),
                              !.last = "CalcPos", !.before = <<>>]
    /\ UNCHANGED <<fmatch, iie, erd, tensor>>

Translate(i, shift) ==
    /\ polar.pc = "live"
    /\ i \in 1..Len(polar.segs)
    /\ polar.moves < MaxMoves
    /\ polar' = [polar EXCEPT !.segs[i] = TranslateSeg(@, shift),
                              !.moves = @ + 1,
                              !.last = "Translate", !.before = <<>>]
    /\ UNCHANGED <<fmatch, iie, erd, tensor>>

RECURSIVE NbLoop(_, _, _)
\* the loop of PrintPolarNbPDB over the neighbours nbs still to print: each
\* neighbour is translated by S, written, and translated by -1 * S
NbLoop(nbs, segs, lines) ==
    IF nbs = <<>> THEN [segs |-> segs, lines |-> lines]
    ELSE LET nit == Head(nbs)
             there == TranslateSeg(segs[nit.nb], nit.S)
             back == TranslateSeg(there, VScale(-1, nit.S))
         IN  NbLoop(Tail(nbs), [segs EXCEPT ![nit.nb] = back],
                    lines \o [k \in 1..Len(there.sites) |-> [tag |-> "PNB", pos |-> there.sites[k]]])

PrintPolarNbPDB(i) ==
    /\ polar.pc = "live"
    /\ i \in 1..Len(polar.segs)
    /\ LET cen == [k \in 1..Len(polar.segs[i].sites) |->
                      [tag |-> "CEN", pos |-> polar.segs[i].sites[k]]]
           loop == NbLoop(polar.segs[i]._nbs, polar.segs, cen)
       IN  polar' = [polar EXCEPT !.segs = loop.segs, !.pdb = loop.lines,
                                  !.last = "PrintPolarNbPDB", !.before = polar.segs]
    /\ UNCHANGED <<fmatch, iie, erd, tensor>>

\* two segments, the second a polar neighbour of the first
InitPolar ==
    /\ CGForceMatching(TRUE, [frames_per_block |-> 1, constrainedLS |-> FALSE], <<>>, <<>>)
    /\ iie = NotRun
    /\ erd = NotRun
    /\ tensor = NotRun
    /\ \E s1, s2 \in SeqsUpTo(SitePositions, MaxSites), S \in Shifts :
          polar = [pc |-> "live",
                   segs |-> <<PolarSegOf(s1, <<[nb |-> 2, S |-> S]>>), PolarSegOf(s2, <<>>)>>,
                   pdb |-> <<>>, moves |-> 0, last |-> "", before |-> <<>>]

NextPolar ==
    \/ \E i \in 1..2 : CalcPos(i)
    \/ \E i \in 1..2, shift \in Shifts : Translate(i, shift)
    \/ \E i \in 1..2 : PrintPolarNbPDB(i)

SpecPolar == InitPolar /\ [][NextPolar]_vars

(* --------------------------------------------------- InteractionTensor *)
\* the largest magnitude of a component of dr
MaxDr == 1

Screenings == {"none", "erfc", "erf"}

\* values of the two radial factors of rank 3, l5 * rR5 and l7 * rR7 (rR5s
\* and rR7s with screening): products of doubles that depend on the norm
\* of dr, on alpha and on the damping coefficients
RadialValues == {1, 2}

\* (double)(a == b)
Delta(a, b) == IF a = b THEN 1 ELSE 0

\* the loop that fills rank3_, the same in noneTensors, erfcTensors and
\* erfTensors but for the radial factors
Rank3(dr, l5rR5, l7rR7) ==
    [k \in 0..2, j \in 0..2, i \in 0..2 |->
        (-15) * dr[k + 1] * dr[j + 1] * dr[i + 1] * l7rR7
        + 3 * (dr[k + 1] * Delta(j, i) + dr[j + 1] * Delta(k, i) + dr[i + 1] * Delta(k, i))
            * l5rR5]

computeTensors ==
    /\ tensor.pc = "constructed"
    /\ tensor' = [tensor EXCEPT !.pc = "computed", !.dr_ = tensor.dr,
                                !.rank3_ = Rank3(tensor.dr, tensor.l5rR5, tensor.l7rR7)]
    /\ UNCHANGED <<fmatch, iie, erd, polar>>

\* a tensor of any screening, and the displacement it will be given
InitTensor ==
    /\ CGForceMatching(TRUE, [frames_per_block |-> 1, constrainedLS |-> FALSE], <<>>, <<>>)
    /\ iie = NotRun
    /\ erd = NotRun
    /\ polar = NotRun
    /\ \E screen \in Screenings, q5, q7 \in RadialValues,
          x, y, z \in (-MaxDr)..MaxDr :
            /\ <<x, y, z>> # <<0, 0, 0>>
            /\ tensor = [pc |-> "constructed", screen |-> screen, dr |-> <<x, y, z>>,
                         l5rR5 |-> q5, l7rR7 |-> q7, dr_ |-> <<0, 0, 0>>,
                         rank3_ |-> [k \in 0..2, j \in 0..2, i \in 0..2 |-> 0]]

NextTensor == computeTensors

SpecTensor == InitTensor /\ [][NextTensor]_vars

(* ------------------------------------------------------------ claims *)
\* the coefficient range of channel i (1-based position in Splines)
Range(i) == Splines[i].matr_pos .. (Splines[i].matr_pos + 2 * (Splines[i].n + 1) - 1)

\* C1: after BeginCG the coefficient ranges [matr_pos, matr_pos + 2(n+1)) of
\* two distinct channels are disjoint, and together they cover exactly
\* [0, col_cntr), col_cntr being the sum of 2(n+1) over the channels.
C1_ColumnPartition ==
    pc = "running" =>
        /\ Len(Splines) = Len(_bonded) + Len(_nonbonded)
        /\ \A i, j \in 1..Len(Splines) : i # j => Range(i) \cap Range(j) = {}
        /\ UNION {Range(i) : i \in 1..Len(Splines)} = 0..(col_cntr - 1)
        /\ col_cntr = SumTo(Len(Splines),
                            [k \in 0..(Len(Splines) - 1) |-> 2 * (Splines[k + 1].n + 1)])

C1_Witness ==
    /\ pc = "running"
    /\ Len(Splines) >= 3
    /\ \E i \in 1..Len(Splines) : Splines[i].bonded /\ Splines[i].matr_pos > 0
    /\ \E i, j \in 1..Len(Splines) : Splines[i].n # Splines[j].n

\* the output points of channel k and the coordinate of point i
Points(k) == 0..(Splines[k].res_output_coeff * (Splines[k].n + 1) - 1)

OutX(k, i) == getGridPoint(Splines[k].Spline, 0) + i * Splines[k].del_x_out

\* C2: after k EvalConfiguration calls with block size N_frames >= 1 the frame
\* counter L is k mod N_frames (so 0 <= L < N_frames), BlockNum is
\* floor(k / N_frames), and the solve has run once per completed block and
\* never in between.
C2_BlockCounter ==
    pc \in {"running", "done"} =>
        /\ N_frames >= 1
        /\ L = frames % N_frames
        /\ 0 <= L /\ L < N_frames
        /\ BlockNum = frames \div N_frames
        /\ solves = frames \div N_frames

C2_Witness ==
    /\ pc = "running"
    /\ N_frames = 2
    /\ frames = 3
    /\ L = 1
    /\ solves = 1

\* C3: on each solve, for every channel block_res[i] = x[matr_pos + i] for i
\* in [0, 2(n+1)), the spline holds that slice, every output point i gets
\* sum[i] += value_i and sum_of_squares[i] += value_i^2 once, value_i being
\* the spline at the i-th output coordinate, and BlockNum grows by one.
C3_SolveStep ==
    [][solves' # solves =>
        /\ BlockNum' = BlockNum + 1
        /\ \A k \in 1..Len(Splines) :
            /\ \A i \in 0..(2 * (Splines[k].n + 1) - 1) :
                 Splines'[k].block_res[i] = _x'[Splines[k].matr_pos + i]
            /\ Splines'[k].Spline.f = Splines'[k].block_res
            /\ \A i \in Points(k) :
                 LET value == Calculate(Splines'[k].Spline, OutX(k, i))
                 IN  /\ Splines'[k].resSum[i] = Splines[k].resSum[i] + value
                     /\ Splines'[k].resSum2[i] = Splines[k].resSum2[i] + value * value]_vars

C3_Witness ==
    /\ pc = "running"
    /\ solves >= 2
    /\ \E k \in 1..Len(Splines) :
        /\ Splines[k].matr_pos > 0
        /\ \E i \in DOMAIN Splines[k].block_res : Splines[k].block_res[i] # 0
        /\ \E i \in Points(k) : Splines[k].resSum[i] # 0 /\ Splines[k].resSum2[i] # 0

\* C4: EndCG computes for every channel and output point i
\* mean[i] = sum[i] / block_count and
\* error[i] = sqrt(sum_of_squares[i] / block_count - mean[i]^2), block_count
\* being the number of completed blocks, and writes the negated mean.
C4_Finalize ==
    pc = "done" =>
        LET block_count == frames \div N_frames
        IN  /\ Len(out) = Len(Splines)
            /\ \A k \in 1..Len(Splines) :
                /\ out[k].index = Splines[k].splineIndex
                /\ DOMAIN out[k].lines = Points(k)
                /\ \A i \in Points(k) :
                    LET mean == Splines[k].result[i]
                        rad == Splines[k].error[i].radicand
                    IN  /\ mean = Quot(Splines[k].resSum[i], block_count)
                        \* sum2/count - (sum/count)^2 over the common denominator
                        /\ rad.den = block_count * block_count
                        /\ rad.num = Splines[k].resSum2[i] * block_count
                                       - Splines[k].resSum[i] * Splines[k].resSum[i]
                        /\ out[k].lines[i].x = OutX(k, i)
                        /\ out[k].lines[i].force.num = -mean.num
                        /\ out[k].lines[i].force.den = mean.den
                        /\ out[k].lines[i].error = Splines[k].error[i]

C4_Witness ==
    /\ pc = "done"
    /\ N_frames = 2
    /\ BlockNum = 2
    /\ \E k \in 1..Len(Splines) : \E i \in Points(k) :
        /\ out[k].lines[i].force.num < 0
        /\ Splines[k].error[i].radicand.num > 0

\* the values the blocks produced at output point i of channel k
ValuesAt(k, i) == {BlockValues(Splines[k], x)[i] : x \in Xseen}

NonbondedCalls == SelectSeq(calls, LAMBDA c : ~Splines[c.sp + 1].bonded)

\* C6: for every pair of the neighbour list the contributions added for bead
\* j are the exact negatives of those for bead i: same frame, same
\* coordinate, same column offset matr_pos, and on each axis the scale for j
\* is minus the scale for i.
C6_PairSymmetry ==
    pc = "running" =>
        /\ Len(NonbondedCalls) % 6 = 0
        /\ \A g \in 0..(Len(NonbondedCalls) \div 6 - 1) : \A axis \in 0..2 :
            LET ci == NonbondedCalls[6 * g + 1 + axis]
                cj == NonbondedCalls[6 * g + 4 + axis]
            IN  /\ ci.axis = axis /\ cj.axis = axis
                /\ cj.x = ci.x
                /\ cj.sp = ci.sp
                /\ cj.offset2 = ci.offset2
                /\ ci.offset2 = Splines[ci.sp + 1].matr_pos
                /\ cj.scale = -ci.scale
                \* rows of the same frame: the row of (axis, bead) less its
                \* place inside the frame
                /\ ci.offset1 - (axis * N + ci.bead) = cj.offset1 - (axis * N + cj.bead)
                /\ \E pr \in {conf.pairs[ci.sp + 1][q] : q \in 1..Len(conf.pairs[ci.sp + 1])} :
                     ci.bead = pr.first /\ cj.bead = pr.second

C6_Witness ==
    /\ pc = "running"
    /\ \E q \in 1..Len(NonbondedCalls) :
         NonbondedCalls[q].axis = 2 /\ NonbondedCalls[q].scale > 0
    /\ \E q \in 1..Len(NonbondedCalls) :
         NonbondedCalls[q].axis = 2 /\ NonbondedCalls[q].scale < 0

\* the continuity rows of the registered channels
ContinuityRows == FmatchAssignSmoothCondsToMatrix(ZeroMatrix(line_cntr, col_cntr), Splines)

\* C7: at the start of every block (right after BeginCG and after every
\* solve), in both modes, all sample rows of _A and all entries of _b are
\* zero, and in unconstrained mode the first line_cntr rows of _A hold
\* exactly the continuity rows.
C7_BlockStartClean ==
    (pc = "running" /\ L = 0) =>
        /\ \A r \in LeastSQOffset..(_A.size1 - 1) : \A c \in 0..(_A.size2 - 1) :
             At(_A, r, c) = 0
        /\ \A r \in DOMAIN _b : _b[r] = 0
        /\ ~ConstrLeastSQ =>
             \A r \in 0..(line_cntr - 1) : \A c \in 0..(col_cntr - 1) :
                 At(_A, r, c) = At(ContinuityRows, r, c)

\* the samples of the last frame, and the calls they take: three per bead
\* of an interaction, six per pair
SampleCount ==
    LET cnt[k \in 0..Len(Splines)] ==
            IF k = 0 THEN 0
            ELSE cnt[k - 1] + 6 * Len(conf.bonds[k]) + 6 * Len(conf.pairs[k])
    IN  cnt[Len(Splines)]

\* C8: a frame without force data is reported by logging only, no RHS entry
\* is written for it (its RHS entries stay zero), its matrix rows are still
\* added, the frame counter advances by one and the block solve still fires
\* when the counter reaches the block size.
C8_MissingForces ==
    (pc = "running" /\ frames > 0 /\ ~conf.HasF) =>
        /\ errors >= 1
        /\ Len(calls) = SampleCount
        /\ L = frames % N_frames
        /\ solves = frames \div N_frames
        /\ L > 0 =>
             \A axis \in 0..2, bead \in 0..(N - 1) :
                 _b[LeastSQOffset + 3 * N * (L - 1) + axis * N + bead] = 0

\* C9: in constrained mode the solution x of a solve satisfies B_constr x = 0.
C9_ConstraintsHold ==
    (pc \in {"running", "done"} /\ ConstrLeastSQ /\ solves > 0) =>
        \A r \in 0..(line_cntr - 1) : DotVec(B_constr, _x, r, col_cntr) = 0

C9_Witness ==
    /\ pc = "running"
    /\ ConstrLeastSQ
    /\ solves > 0
    /\ \E i \in DOMAIN _x : _x[i] # 0
    /\ \E r \in 0..(line_cntr - 1), c \in 0..(col_cntr - 1) : At(B_constr, r, c) # 0

\* C10: in constrained mode B_constr has the same content at every solve of
\* the run: the continuity rows built at BeginCG, untouched by frame
\* sampling and by the factorization, and rebuilt identically at block reset.
C10_ConstantB ==
    (pc \in {"running", "done"} /\ ConstrLeastSQ) =>
        /\ B_constr = ContinuityRows
        /\ Bseen = {B_constr}

C10_Witness ==
    /\ pc = "running"
    /\ ConstrLeastSQ
    /\ solves >= 2
    /\ N_frames = 2
    /\ \E r \in 0..(line_cntr - 1), c \in 0..(col_cntr - 1) : At(B_constr, r, c) # 0

\* the columns one AddToFitMatrix call writes
CallCols(c) ==
    LET Spline == Splines[c.sp + 1].Spline
        spi == getInterval(Spline, c.x)
    IN  {c.offset2 + spi, c.offset2 + spi + 1,
         c.offset2 + spi + Spline.size, c.offset2 + spi + Spline.size + 1}

\* the rows allocated by BeginCG
AllocatedRows == IF ConstrLeastSQ THEN 3 * N * N_frames ELSE line_cntr + 3 * N * N_frames

C12_DimensionsFixed ==
    [][pc # "constructed" =>
        /\ _A'.size1 = _A.size1
        /\ _A'.size2 = _A.size2
        /\ DOMAIN _A'.data = DOMAIN _A.data
        /\ DOMAIN _b' = DOMAIN _b
        /\ B_constr'.size1 = B_constr.size1
        /\ B_constr'.size2 = B_constr.size2
        /\ Len(Splines') = Len(Splines)
        /\ \A k \in 1..Len(Splines) :
             /\ Splines'[k].n = Splines[k].n
             /\ Splines'[k].matr_pos = Splines[k].matr_pos]_vars

C12_Witness ==
    /\ pc = "done"
    /\ ConstrLeastSQ
    /\ solves >= 1
    /\ L > 0
    /\ _A.size1 = AllocatedRows
    /\ _A.size2 = col_cntr
    /\ B_constr.size1 = line_cntr
    /\ B_constr.size2 = col_cntr

\* C13: for every registered channel, whatever its name, EndCG writes one
\* file named <channel>.force: a header line with the channel index and
\* exactly res_output_coeff*(n+1) lines <grid_x> <negated mean> <error>,
\* the i-th grid_x being grid(0) + i*del_x_out, the coordinate at which the
\* block values were accumulated into index i.
C13_FilePerChannel ==
    (pc \in {"done", "crashed"} /\ writable) =>
        /\ pc = "done"
        /\ Len(out) = Len(Splines)
        /\ \A k \in 1..Len(Splines) :
            /\ out[k].name = Splines[k].splineName \o ".force"
            /\ out[k].index = Splines[k].splineIndex
            /\ DOMAIN out[k].lines = Points(k)
            /\ \A i \in Points(k) :
                /\ out[k].lines[i].x = OutX(k, i)
                /\ out[k].lines[i].force.num = -Splines[k].result[i].num
                /\ out[k].lines[i].force.den = Splines[k].result[i].den
                /\ out[k].lines[i].error = Splines[k].error[i]

\* C14: if the output file of a channel cannot be opened, EndCG does not
\* complete silently: the write of that channel ends in an error outcome.
C14_OpenFailureReported ==
    ~writable => pc # "done"

\* C15: at every block reset the engine checks by assertion that the row
\* and column counts of _A agree with the registered channels, so a mismatch
\* would end in an error state: each reset has evaluated the assertion.
C15_AssertAtReset ==
    pc \in {"running", "done"} => asserts = solves

RECURSIVE BagSum(_, _, _, _, _)
\* over the solutions in S, each taken as often as it is in B: the sum of the
\* values (pw = 1) or of their squares (pw = 2) at output point i of channel k
BagSum(B, S, k, i, pw) ==
    IF S = {} THEN 0
    ELSE LET x == CHOOSE y \in S : TRUE
             v == BlockValues(Splines[k], x)[i]
         IN  CopiesIn(x, B) * (IF pw = 1 THEN v ELSE v * v)
               + BagSum(B, S \ {x}, k, i, pw)

C17_PartialBlockIgnored ==
    [][/\ solves' = solves =>
            /\ BlockNum' = BlockNum
            /\ \A k \in 1..Len(Splines) :
                 /\ Splines'[k].resSum = Splines[k].resSum
                 /\ Splines'[k].resSum2 = Splines[k].resSum2
       /\ (pc = "running" /\ pc' = "done") =>
            \A k \in 1..Len(Splines) : \A i \in Points(k) :
                /\ Splines'[k].result[i]
                     = Quot(BagSum(Xbag, BagToSet(Xbag), k, i, 1), solves)
                /\ Splines'[k].error[i].radicand
                     = Quot(BagSum(Xbag, BagToSet(Xbag), k, i, 2) * solves
                              - BagSum(Xbag, BagToSet(Xbag), k, i, 1)
                                  * BagSum(Xbag, BagToSet(Xbag), k, i, 1),
                            solves * solves)]_vars

C17_Witness ==
    /\ pc = "done"
    /\ L > 0
    /\ solves >= 1
    /\ calls # <<>>
    /\ \E k \in 1..Len(Splines) : \E i \in Points(k) : Splines[k].result[i].num # 0

\* the Householder matrix Q_k = I - tau_k v_k v_k^T of a factorization, k in
\* 1..line_cntr, v_k being column k of the factorized matrix below its
\* diagonal with a leading 1
Reflector(qr, k) ==
    MakeMatrix(col_cntr, col_cntr,
               [p \in Places(col_cntr, col_cntr) |->
                   LET i == p \div col_cntr
                       j == p % col_cntr
                       vi == IF i < k - 1 THEN 0 ELSE IF i = k - 1 THEN 1
                             ELSE At(qr.matrix, i, k - 1)
                       vj == IF j < k - 1 THEN 0 ELSE IF j = k - 1 THEN 1
                             ELSE At(qr.matrix, j, k - 1)
                   IN  (IF i = j THEN 1 ELSE 0) - qr.tau[k - 1] * vi * vj])

RECURSIVE Householder(_, _)
\* the product Q_1 Q_2 ... Q_k, taken in forward order
Householder(qr, k) ==
    IF k = 0 THEN Identity(col_cntr)
    ELSE MakeMatrix(col_cntr, col_cntr, Prod(Householder(qr, k - 1), Reflector(qr, k)).data)

\* columns [from, from + width) of M
ColumnBlock(M, from, width) ==
    MakeMatrix(M.size1, width,
               [p \in Places(M.size1, width) |-> At(M, p \div width, (p % width) + from)])

\* C18: in the constrained solve the matrix Q rebuilt by the loop over the
\* reflectors in reverse order followed by a transposition is Q_1 Q_2 ... Q_m
\* of the factorization of trans(B_constr); _A becomes A Q; the least-squares
\* problem is posed on the second column block of A Q only; and the solution
\* is x = Q [0; x_free], the coefficients of the first block being zero.
C18_ConstrainedSolve ==
    (pc = "running" /\ ConstrLeastSQ /\ lsq # NoSolve) =>
        LET qr == gsl_linalg_QR_decomp(Trans(B_constr), line_cntr)
            Q == Householder(qr, line_cntr)
            AQ == MakeMatrix(lsq.A.size1, col_cntr, Prod(lsq.A, Q).data)
            free == LSSolve(ColumnBlock(AQ, line_cntr, col_cntr - line_cntr), lsq.b)
            sols == Solutions(lsq.A, lsq.b)
        IN  /\ ExtractQ(qr) = Q
            /\ \A sol \in sols :
                   /\ sol.A.size1 = AQ.size1
                   /\ sol.A.size2 = AQ.size2
                   /\ \A p \in Places(AQ.size1, AQ.size2) : sol.A.data[p] = AQ.data[p]
            /\ {sol.x : sol \in sols}
                 = {ProdVec(Q, Stored([i \in 0..(col_cntr - 1) |->
                                          IF i < line_cntr THEN 0 ELSE xf[i - line_cntr]])) :
                       xf \in free}
            /\ _x \in {sol.x : sol \in sols}
            /\ \A i \in 0..(line_cntr - 1) : DotVV([r \in 0..(col_cntr - 1) |-> At(Q, r, i)], _x, col_cntr) = 0

C18_Witness ==
    /\ pc = "running"
    /\ ConstrLeastSQ
    /\ lsq # NoSolve
    /\ \E i \in DOMAIN _x : _x[i] # 0
    /\ \E p \in DOMAIN lsq.A.data : lsq.A.data[p] # 0
    /\ ExtractQ(gsl_linalg_QR_decomp(Trans(B_constr), line_cntr)) # Identity(col_cntr)

\* the row of frame counter l, axis a and bead b
RowMap(l, a, b) == LeastSQOffset + 3 * N * l + a * N + b

\* C19: bonded samples, non-bonded samples and observed forces use one row
\* map: for frame counter L in [0, N_frames), bead b in [0, N) and axis a
\* the row is LeastSQOffset + 3*N*L + a*N + b. The map is injective over
\* (L, a, b); a bonded sample adds a contribution for every participating
\* bead and every axis, scaled by that bead's gradient component; and the
\* RHS entry of bead b's force on axis a in frame L is the row that receives
\* the matrix contributions for (L, b, a).
C19_OneRowMap ==
    [][(pc = "running" /\ frames' = frames + 1) =>
        LET A1 == IF lsq' # NoSolve THEN lsq'.A ELSE _A'
            b1 == IF lsq' # NoSolve THEN lsq'.b ELSE _b'
            frameRows == {RowMap(L, a, b) : a \in 0..2, b \in 0..(N - 1)}
        IN  /\ L \in 0..(N_frames - 1)
            /\ \A l1, l2 \in 0..(N_frames - 1), a1, a2 \in 0..2, c1, c2 \in 0..(N - 1) :
                   RowMap(l1, a1, c1) = RowMap(l2, a2, c2) => (l1 = l2 /\ a1 = a2 /\ c1 = c2)
            /\ \A q \in 1..Len(calls') :
                   /\ calls'[q].axis \in 0..2
                   /\ calls'[q].bead \in 0..(N - 1)
                   /\ calls'[q].offset1 = RowMap(L, calls'[q].axis, calls'[q].bead)
            /\ \A k \in 1..Len(Splines) : \A j \in 1..Len(conf'.bonds[k]) :
                   LET inter == conf'.bonds[k][j]
                   IN  \A loop \in 1..Len(inter.beads), a \in 0..2 :
                           \E q \in 1..Len(calls') :
                               /\ calls'[q].sp = Splines[k].splineIndex
                               /\ calls'[q].x = inter.var
                               /\ calls'[q].offset1 = RowMap(L, a, inter.beads[loop])
                               /\ calls'[q].offset2 = Splines[k].matr_pos
                               /\ calls'[q].scale = inter.grad[loop][a + 1]
            /\ \A k \in 1..Len(Splines) : \A j \in 1..Len(conf'.pairs[k]) :
                   LET pair == conf'.pairs[k][j]
                   IN  \A a \in 0..2 :
                           \E q1, q2 \in 1..Len(calls') :
                               /\ calls'[q1].sp = Splines[k].splineIndex
                               /\ calls'[q2].sp = Splines[k].splineIndex
                               /\ calls'[q1].offset1 = RowMap(L, a, pair.first)
                               /\ calls'[q2].offset1 = RowMap(L, a, pair.second)
            /\ conf'.HasF =>
                   \A a \in 0..2, b \in 0..(N - 1) :
                       b1[RowMap(L, a, b)] = conf'.F[b][a + 1]
            /\ \A r \in 0..(_A.size1 - 1) :
                   (\E c \in 0..(col_cntr - 1) : At(A1, r, c) # At(_A, r, c)) =>
                       /\ r \in frameRows
                       /\ \E q \in 1..Len(calls') : calls'[q].offset1 = r
            /\ \A r \in DOMAIN _b : b1[r] # _b[r] => r \in frameRows]_vars

C19_Witness ==
    /\ pc = "running"
    /\ N_frames = 2
    /\ frames = 2
    /\ conf.HasF
    /\ \E q \in 1..Len(calls) :
         /\ Splines[calls[q].sp + 1].bonded
         /\ calls[q].scale # 0
         /\ calls[q].offset1 = RowMap(1, 2, N - 1)
    /\ \E q \in 1..Len(calls) :
         /\ ~Splines[calls[q].sp + 1].bonded
         /\ calls[q].scale # 0
         /\ calls[q].offset1 = RowMap(1, calls[q].axis, 0)
    /\ lsq.b[RowMap(1, 2, N - 1)] = conf.F[N - 1][3]

RECURSIVE SumRows(_)
\* the sum of n + 1 over a list of channels
SumRows(sps) == IF sps = <<>> THEN 0 ELSE Head(sps).n + 1 + SumRows(Tail(sps))

\* C20: the number of leading coefficients forced to zero, and of leading
\* columns of A Q dropped, in the constrained solve is rows(B) = line_cntr
\* for every list of channels: the code splits at col_cntr / 2, and after
\* BeginCG col_cntr = 2 * line_cntr, so the free block has col_cntr -
\* line_cntr columns.
C20_SplitIsRowsOfB ==
    pc = "running" =>
        /\ line_cntr = SumRows(Splines)
        /\ col_cntr = 2 * line_cntr
        /\ SplitAt = line_cntr
        /\ _A.size2 \div 2 = line_cntr
        /\ VSize(_x) \div 2 = line_cntr
        /\ VSize(_x) - VSize(_x) \div 2 = col_cntr - line_cntr
        /\ ConstrLeastSQ =>
              /\ B_constr.size1 = line_cntr
              /\ B_constr.size2 = col_cntr
              /\ ColumnBlock(_A, SplitAt, col_cntr \div 2).size2 = col_cntr - B_constr.size1

C20_Witness ==
    /\ pc = "running"
    /\ ConstrLeastSQ
    /\ Len(Splines) >= 3
    /\ \E j, k \in 1..Len(Splines) : Splines[j].n # Splines[k].n
    /\ B_constr.size1 = SplitAt
    /\ B_constr.size1 > 0

\* the first continuity row of channel i: the rows of the channels before it
RowStart(i) == SumRows(SubSeq(Splines, 1, i - 1))

\* the continuity rows of channel i
RowRange(i) == RowStart(i) .. (RowStart(i) + Splines[i].n)

RECURSIVE RowsAtStoredOffsets(_, _)
\* the continuity rows of channels 1..k, each set at the column offset
\* stored in the channel at registration
RowsAtStoredOffsets(M, k) ==
    IF k = 0 THEN M
    ELSE AddBCToFitMatrix(Splines[k].Spline, RowsAtStoredOffsets(M, k - 1),
                          RowStart(k), Splines[k].matr_pos)

\* C21: the continuity rows of channel i are set at column offset matr_pos
\* of the channel and at row offset the sum of n_j + 1 over the channels
\* registered before it: the running offsets of
\* FmatchAssignSmoothCondsToMatrix agree with the offsets stored at
\* registration, so the continuity rows and the sample contributions of a
\* channel address the same columns.
C21_OffsetsAgree ==
    pc = "running" =>
        LET M == IF ConstrLeastSQ THEN B_constr ELSE _A
            ref == RowsAtStoredOffsets(ZeroMatrix(M.size1, M.size2), Len(Splines))
        IN  /\ \A p \in Places(M.size1, M.size2) : M.data[p] = ref.data[p]
            /\ \A r \in 0..(line_cntr - 1), c \in 0..(col_cntr - 1) :
                   At(M, r, c) # 0 =>
                       \E i \in 1..Len(Splines) : r \in RowRange(i) /\ c \in Range(i)
            /\ \A i \in 1..Len(Splines) : \A r \in RowRange(i) :
                   \E c \in Range(i) : At(M, r, c) # 0

C21_Witness ==
    /\ pc = "running"
    /\ ConstrLeastSQ
    /\ Len(Splines) >= 3
    /\ \E j, k \in 1..Len(Splines) : Splines[j].n # Splines[k].n
    /\ \E c \in Range(Len(Splines)) :
         At(B_constr, RowStart(Len(Splines)) + Splines[Len(Splines)].n, c) # 0

\* C22: in unconstrained mode no sample contribution and no observed-force
\* write touches the rows [0, line_cntr) of the continuity conditions, all
\* sample rows being offset by LeastSQOffset = line_cntr, and at every solve
\* the RHS entries of those rows are zero; in constrained mode the sample
\* rows start at row 0 and the design matrix holds no continuity rows.
C22_ContinuityRowsUntouched ==
    [][(pc = "running" /\ frames' = frames + 1) =>
        LET A1 == IF lsq' # NoSolve THEN lsq'.A ELSE _A'
            b1 == IF lsq' # NoSolve THEN lsq'.b ELSE _b'
            cont == ContinuityRows
        IN  /\ ~ConstrLeastSQ =>
                 /\ LeastSQOffset = line_cntr
                 /\ A1.size1 = line_cntr + 3 * N * N_frames
                 /\ \A q \in 1..Len(calls') : calls'[q].offset1 >= line_cntr
                 /\ \A r \in 0..(line_cntr - 1) :
                        /\ b1[r] = _b[r]
                        /\ b1[r] = 0
                        /\ \A c \in 0..(col_cntr - 1) :
                               /\ At(A1, r, c) = At(_A, r, c)
                               /\ At(A1, r, c) = At(cont, r, c)
            /\ ConstrLeastSQ =>
                 /\ LeastSQOffset = 0
                 /\ A1.size1 = 3 * N * N_frames
                 /\ VSize(b1) = 3 * N * N_frames
                 /\ \A q \in 1..Len(calls') :
                        calls'[q].offset1 \in 0..(3 * N * N_frames - 1)
                 /\ (L = 0 /\ conf'.HasF) => b1[0] = conf'.F[0][1]]_vars

C22_Witness ==
    /\ pc = "running"
    /\ ~ConstrLeastSQ
    /\ line_cntr > 0
    /\ lsq # NoSolve
    /\ conf.HasF
    /\ \E q \in 1..Len(calls) : calls[q].scale # 0 /\ calls[q].offset1 = line_cntr
    /\ \E r \in 0..(line_cntr - 1), c \in 0..(col_cntr - 1) : At(lsq.A, r, c) # 0
    /\ \A r \in 0..(line_cntr - 1) : lsq.b[r] = 0

\* C23: EndCG never divides by a zero block count: whenever it computes
\* mean = sum / BlockNum at least one block has been completed, also when
\* the run had fewer frames than the block size.
C23_BlocksBeforeFinalize ==
    pc = "done" =>
        /\ BlockNum >= 1
        /\ \A k \in 1..Len(Splines) : \A i \in Points(k) :
               /\ Splines[k].result[i].den # 0
               /\ Splines[k].error[i].radicand.den # 0

\* C24: in every reachable state with BlockNum >= 1 and for every output
\* point the quantity under the square root of EndCG is non-negative in
\* exact arithmetic: BlockNum * resSum2 >= resSum^2.
C24_RadicandNonNegative ==
    BlockNum >= 1 =>
        \A k \in 1..Len(Splines) : \A i \in Points(k) :
            /\ BlockNum * Splines[k].resSum2[i] >= Splines[k].resSum[i] * Splines[k].resSum[i]
            /\ pc = "done" =>
                  /\ Splines[k].error[i].radicand.num >= 0
                  /\ Splines[k].error[i].radicand.den > 0

C24_Witness ==
    /\ pc = "done"
    /\ BlockNum >= 2
    /\ \E k \in 1..Len(Splines) : \E i \in Points(k) :
         /\ Splines[k].resSum[i] # 0
         /\ Splines[k].error[i].radicand.num > 0

\* C25: for every channel name the file name EndCG assembles by copying the
\* name and appending ".force" fits its 20-byte buffer, the terminating NUL
\* included, so no byte is written outside the buffer.
C25_NameFitsBuffer ==
    pc \in {"done", "crashed"} =>
        \A k \in 1..Len(Splines) :
            Len(Splines[k].splineName) + Len(".force") + 1 <= BufSize

\* the design matrix as the last frame left it, and that frame's counter
FrameMatrix == IF lsq # NoSolve THEN lsq.A ELSE _A

FrameCounter == (frames - 1) % N_frames

\* the sum over the beads' rows of frame counter l and axis a in column c
AxisColumnSum(M, l, a, c) == SumTo(N, [b \in 0..(N - 1) |-> At(M, RowMap(l, a, b), c)])

\* C26: within one frame, after any set of non-bonded pair samples and no
\* bonded sample, for every axis and every column of the design matrix the
\* entries over all beads' rows of that frame and axis sum to zero.
C26_PairForcesCancel ==
    (/\ pc = "running"
     /\ frames >= 1
     /\ \A k \in 1..Len(Splines) : conf.bonds[k] = <<>>) =>
        \A a \in 0..2, c \in 0..(col_cntr - 1) :
            AxisColumnSum(FrameMatrix, FrameCounter, a, c) = 0

\* C27: the multistate iie potential update script rejects Newton methods:
\* whenever cg.inverse.iie.method is newton or newton-mod the script dies
\* with the Gauss-Newton-only message before any RDF calculation or
\* potential update is run.
C27_NewtonRejected ==
    (iie.pc # "none" /\ iie.iie_method \in {"newton", "newton-mod"}) =>
        /\ iie.pc \in {"method", "died"}
        /\ iie.pc = "died" => iie.died = GaussNewtonOnly
        /\ \A q \in 1..Len(iie.ran) :
               iie.ran[q].cmd \notin {"rdf", "rdf --only-intra-nb", "update iie_pot"}

\* C28: ERDiabatizationFrame::ParseOptions accepts the options only when
\* both state indices are at least 1: it throws "State idx 1 must start from
\* 1." when state_idx_1 < 1, which is tested first, "State idx 2 must start
\* from 1." when state_idx_1 >= 1 and state_idx_2 < 1, and nothing when both
\* are at least 1.
C28_IndicesFromOne ==
    erd.pc \in {"parsed", "thrown"} =>
        LET idx1 == erd.user_options.state_idx_1
            idx2 == erd.user_options.state_idx_2
        IN  /\ erd._options.state_idx_1 = idx1
            /\ erd._options.state_idx_2 = idx2
            /\ erd.pc = "parsed" <=> (idx1 >= 1 /\ idx2 >= 1)
            /\ erd.pc = "parsed" => erd.what = ""
            /\ idx1 < 1 => erd.what = "State idx 1 must start from 1."
            /\ (idx1 >= 1 /\ idx2 < 1) => erd.what = "State idx 2 must start from 1."

C28_Witness ==
    /\ erd.pc = "thrown"
    /\ erd.user_options.state_idx_1 = 0
    /\ erd.user_options.state_idx_2 = 0
    /\ erd.what = "State idx 1 must start from 1."

\* _pos of a segment is the mean of its site positions, the zero vector for
\* a segment without sites
IsCentroid(seg) ==
    IF Len(seg.sites) = 0 THEN seg._pos.num = <<0, 0, 0>>
    ELSE VScale(Len(seg.sites), seg._pos.num) = VScale(seg._pos.den, VSum(seg.sites))

\* C29: PolarSeg keeps _pos equal to the centroid of its sites under
\* translation: when _pos is the mean of the site positions (the zero
\* vector for an empty segment) it still is after Translate(shift);
\* Translate(s) followed by Translate(-s) restores every site position and
\* _pos, so PrintPolarNbPDB leaves the positions of every neighbour
\* segment unchanged.
C29_CentroidKept ==
    polar.pc = "live" =>
        /\ \A i \in 1..Len(polar.segs) : IsCentroid(polar.segs[i])
        /\ polar.last = "PrintPolarNbPDB" => polar.segs = polar.before

\* C30: the rank-3 tensor of InteractionTensor is fully symmetric in all
\* three screening variants: for every displacement dr and all k, j, i in
\* {0, 1, 2}, rank3(k, j, i) is unchanged by any permutation of (k, j, i).
C30_Rank3Symmetric ==
    tensor.pc = "computed" =>
        \A k \in 0..2, j \in 0..2, i \in 0..2 :
            /\ tensor.rank3_[k, j, i] = tensor.rank3_[j, k, i]
            /\ tensor.rank3_[k, j, i] = tensor.rank3_[k, i, j]
            /\ tensor.rank3_[k, j, i] = tensor.rank3_[i, j, k]
====
